---- MODULE Spec2Model ----
(***************************************************************************)
(* Model of the Pico buzzer firmware: the PWM tone generator (buzzer.py),  *)
(* the single-slot playback scheduler (playback.py) running on the         *)
(* cooperative uasyncio event loop, and the JSON/HTTP request router       *)
(* (http.py).                                                              *)
(*                                                                         *)
(* Event loop: tasks that are ready to run sit in a FIFO run queue (runq). *)
(* create_task appends the new task; Task.cancel() marks the task with a   *)
(* pending CancelledError and, when the task is asleep in sleep_ms, moves  *)
(* it to the run queue "now"; a task already waiting in the run queue      *)
(* keeps its place.  A sleeping task enters the run queue when its timer   *)
(* expires.  The loop always runs the task at the head of the queue up to  *)
(* its next await.  Synchronous code (no await) is one atomic action.      *)
(***************************************************************************)
EXTENDS Integers, Sequences, FiniteSets, TLC

\* ------------------------------------------------------------------ bounds
\* Number of playback tasks ever created in one behaviour.
MaxTasks == 3

\* Number of playback tasks created in a behaviour of the fair specification.
MaxFairTasks == 2

\* ------------------------------------------------------- values and inputs
\* Dynamically typed (JSON / Python) values are tagged.
I(n) == [t |-> "int", v |-> n]
S(s) == [t |-> "str", v |-> s]      \* s: the sequence of characters

\* Duty fractions are kept in hundredths: 50 is 0.5, 100 is 1.0.

\* Arguments used for direct calls of the playback API.
ToneArgs ==
  { [freq |-> I(440), ms |-> I(200), duty |-> 50],
    [freq |-> I(0),   ms |-> I(200), duty |-> 50] }

MelodyArgs ==
  { [notes |-> << <<I(440), I(100)>>, <<I(550), I(100)>> >>, gap |-> I(20), duty |-> 100],
    [notes |-> << <<S(<<"a">>), I(100)>> >>,                     gap |-> I(50), duty |-> 50],
    [notes |-> << <<I(440), S(<<"x">>)>> >>,                     gap |-> I(50), duty |-> 50],
    [notes |-> << >>,                                        gap |-> I(50), duty |-> 50] }

\* ------------------------------------------------------------------- state
VARIABLES
  pwm,            \* buzzer.py _pwm: [freq, duty] as last programmed, and
                  \* whether this build's duty_u16 checks its argument
  task,           \* sequence of all playback tasks created so far
  runq,           \* event loop run queue: ids of tasks ready to run, FIFO
  current_task,   \* playback.py _current_task: 0 is None, else a task id
  conn,           \* http.py: one handle_client coroutine per connection
  last,           \* the last step taken (observation only)
  api             \* the last playback API call made: "none", "play", "cancel"

vars == <<pwm, task, runq, current_task, conn, last, api>>

TaskIds == 1..Len(task)

InQueue(q, t) == \E i \in 1..Len(q) : q[i] = t

\* Task.done(): the coroutine has finished, normally, by cancellation or by
\* an exception.
Done(tk) == tk.pc \in {"Completed", "Canceled", "Failed"}

\* A trace event of a task: a call it made.
Ev(op, a) == [op |-> op, a |-> a]

\* ---------------------------------------------------------------- buzzer.py
\* int(65535 * duty), truncating toward zero.
DutyVal(d) == IF d >= 0 THEN (65535 * d) \div 100 ELSE -((65535 * (-d)) \div 100)

stop_tone(p) == [p EXCEPT !.duty = 0]

\* Range of the argument of PWM.duty_u16.
DutyMax == 65535

\* start_tone(freq, duty): result is the new PWM state and whether the call
\* raised (comparing a non-integer with 0 raises TypeError).  What
\* _pwm.duty_u16 does with a value outside 0..65535 depends on the firmware
\* build: it raises ValueError (p.checked), or it programs the value as given.
start_tone(p, freq, duty) ==
  IF freq.t # "int" THEN [pwm |-> p, raised |-> TRUE]
  ELSE IF freq.v <= 0 THEN [pwm |-> stop_tone(p), raised |-> FALSE]
  ELSE IF p.checked /\ DutyVal(duty) \notin 0..DutyMax
    THEN [pwm |-> [p EXCEPT !.freq = freq.v], raised |-> TRUE]
  ELSE [pwm |-> [p EXCEPT !.freq = freq.v, !.duty = DutyVal(duty)], raised |-> FALSE]

\* ------------------------------------------------------------- playback.py
\* The finally: block of both coroutines: stop_tone(), then the coroutine
\* ends in state endpc.
Finally(tk, p, endpc) ==
  [task |-> [tk EXCEPT !.pc = endpc,
                        !.trace = Append(@, Ev("stop_tone", I(0))),
                        !.stops = @ + 1],
   pwm |-> stop_tone(p)]

\* Variant of PlayNote without the try/finally around the note: an exception
\* ends the coroutine at once.
PlayNote_NoFinally(tk, p, i) ==
  LET freq == tk.notes[i][1]
      ms   == tk.notes[i][2]
      st   == start_tone(p, freq, tk.duty)
      tk1  == [tk EXCEPT !.trace = Append(@, Ev("start_tone", freq))]
  IN  IF st.raised THEN [task |-> [tk1 EXCEPT !.pc = "Failed"], pwm |-> st.pwm]
      ELSE IF ms.t # "int"
        THEN [task |-> [tk1 EXCEPT !.pc = "Failed",
                                   !.trace = Append(@, Ev("sleep_ms", ms))],
              pwm |-> st.pwm]
        ELSE [task |-> [tk1 EXCEPT !.pc = "hold", !.idx = i,
                                   !.trace = Append(@, Ev("sleep_ms", ms))],
              pwm |-> st.pwm]

\* start_tone(freq, duty); await asyncio.sleep_ms(ms) for note i, inside try.
\* An exception raised by either call runs the finally block.
PlayNote(tk, p, i) ==
  LET freq == tk.notes[i][1]
      ms   == tk.notes[i][2]
      st   == start_tone(p, freq, tk.duty)
      tk1  == [tk EXCEPT !.trace = Append(@, Ev("start_tone", freq))]
  IN  IF st.raised THEN Finally(tk1, st.pwm, "Failed")
      ELSE IF ms.t # "int"
        THEN Finally([tk1 EXCEPT !.trace = Append(@, Ev("sleep_ms", ms))], st.pwm, "Failed")
        ELSE [task |-> [tk1 EXCEPT !.pc = "hold", !.idx = i,
                                   !.trace = Append(@, Ev("sleep_ms", ms))],
              pwm |-> st.pwm]

\* Variant in which a cancelled coroutine runs its finally block even when
\* it never started.
ThrowCancelled_AlwaysFinally(tk, p) == Finally(tk, p, "Canceled")

\* CancelledError thrown into the coroutine at the point where it is
\* suspended.  A coroutine that never ran has not entered its try block.
ThrowCancelled(tk, p) ==
  IF tk.pc = "new" THEN [task |-> [tk EXCEPT !.pc = "Canceled"], pwm |-> p]
  ELSE Finally(tk, p, "Canceled")

\* Variant of _play_note_async that goes back to sleep when its hold is over.
play_note_async_HoldForever(tk, p) ==
  IF tk.pc = "new" THEN PlayNote(tk, p, 1)
  ELSE [task |-> tk, pwm |-> p]

\* _play_note_async resumed by the event loop, up to its next await.
play_note_async(tk, p) ==
  IF tk.pc = "new" THEN PlayNote(tk, p, 1)
  ELSE Finally(tk, p, "Completed")

\* Variant of _play_melody_async that omits the stop_tone() after a note.
play_melody_async_NoNoteStop(tk, p) ==
  LET next == IF tk.pc = "new" THEN 1 ELSE tk.idx + 1
  IN  IF tk.pc = "hold"
        THEN [task |-> [tk EXCEPT !.pc = "gap",
                                  !.trace = Append(@, Ev("sleep_ms", tk.gap))],
              pwm |-> p]
      ELSE IF next <= Len(tk.notes) THEN PlayNote(tk, p, next)
      ELSE Finally(tk, p, "Completed")

\* _play_melody_async resumed by the event loop, up to its next await.
play_melody_async(tk, p) ==
  LET next == IF tk.pc = "new" THEN 1 ELSE tk.idx + 1
  IN  IF tk.pc = "hold"
        THEN [task |-> [tk EXCEPT !.pc = "gap",
                                  !.trace = @ \o <<Ev("stop_tone", I(0)), Ev("sleep_ms", tk.gap)>>],
              pwm |-> stop_tone(p)]
      ELSE IF next <= Len(tk.notes) THEN PlayNote(tk, p, next)
      ELSE Finally(tk, p, "Completed")

\* Variant of the resumption in which a pending cancellation is not
\* delivered to a melody: it keeps playing its remaining notes.
Resume_MelodyIgnoresCancel(tk, p) ==
  IF tk.kind = "tone"
    THEN (IF tk.cancelReq THEN ThrowCancelled(tk, p) ELSE play_note_async(tk, p))
    ELSE play_melody_async(tk, p)

\* One resumption of a task by the event loop.
Resume(tk, p) ==
  IF tk.cancelReq THEN ThrowCancelled(tk, p)
  ELSE IF tk.kind = "tone" THEN play_note_async(tk, p)
  ELSE play_melody_async(tk, p)

\* Task.cancel() of uasyncio: flag the pending CancelledError and bring a
\* sleeping task forward into the run queue.
TaskCancel(s, t) ==
  [s EXCEPT !.task[t].cancelReq = TRUE,
            !.runq = IF InQueue(s.runq, t) THEN @ ELSE Append(@, t)]

\* Variant of cancel_current_playback() without its stop_tone() call.
cancel_current_playback_NoStop(s) ==
  LET t == s.cur
  IN  IF t # 0 /\ ~Done(s.task[t])
        THEN [TaskCancel(s, t) EXCEPT !.cur = 0]
        ELSE [s EXCEPT !.cur = 0]

\* Variant of cancel_current_playback() without the test for an empty slot:
\* None.done() raises AttributeError.
cancel_current_playback_NoNoneCheck(s) ==
  LET t == s.cur
  IN  IF t = 0 THEN [s EXCEPT !.exc = TRUE]
      ELSE IF ~Done(s.task[t])
        THEN LET c == TaskCancel(s, t)
             IN  [c EXCEPT !.task[t].stops = @ + 1,
                           !.pwm = stop_tone(@),
                           !.cur = 0]
        ELSE [s EXCEPT !.cur = 0]

\* cancel_current_playback(), on the state record s = [task, runq, cur, pwm,
\* exc]; exc tells whether the call raised.
cancel_current_playback(s) ==
  LET t == s.cur
  IN  IF t # 0 /\ ~Done(s.task[t])
        THEN LET c == TaskCancel(s, t)
             IN  [c EXCEPT !.task[t].stops = @ + 1,
                           !.pwm = stop_tone(@),
                           !.cur = 0]
        ELSE [s EXCEPT !.cur = 0]

\* asyncio.create_task(coro) followed by the assignment to _current_task
\* (not reached when the preceding cancel raised).
CreateTask(s, kind, notes, gap, duty) ==
  LET id == Len(s.task) + 1
      tk == [kind |-> kind, notes |-> notes, gap |-> gap, duty |-> duty,
             pc |-> "new", idx |-> 0, cancelReq |-> FALSE,
             trace |-> << >>, stops |-> 0]
  IN  IF s.exc THEN s
      ELSE [s EXCEPT !.task = Append(@, tk), !.runq = Append(@, id), !.cur = id]

\* Variant of play_tone_for_ms that does not cancel the existing task.
play_tone_for_ms_NoCancel(s, freq, ms, duty) ==
  CreateTask(s, "tone", << <<freq, ms>> >>, I(0), duty)

\* Variant of play_tone_for_ms that creates the new task before it cancels
\* the previous one.
play_tone_for_ms_CreateFirst(s, freq, ms, duty) ==
  LET n == CreateTask(s, "tone", << <<freq, ms>> >>, I(0), duty)
      c == cancel_current_playback([n EXCEPT !.cur = s.cur])
  IN  [c EXCEPT !.cur = n.cur]

play_tone_for_ms(s, freq, ms, duty) ==
  CreateTask(cancel_current_playback(s), "tone", << <<freq, ms>> >>, I(0), duty)

\* Variant of play_melody that does not cancel the existing task.
play_melody_NoCancel(s, notes, gap_ms, duty) ==
  CreateTask(s, "melody", notes, gap_ms, duty)

play_melody(s, notes, gap_ms, duty) ==
  CreateTask(cancel_current_playback(s), "melody", notes, gap_ms, duty)

\* The shared playback state as one record, and its write-back.
Shared ==
  [task |-> task, runq |-> runq, cur |-> current_task, pwm |-> pwm, exc |-> FALSE]

Install(s) ==
  /\ task' = s.task
  /\ runq' = s.runq
  /\ current_task' = s.cur
  /\ pwm' = s.pwm

\* ------------------------------------------------------------------ http.py
Conns == {"c1", "c2"}

\* More JSON values: floats (in hundredths), lists, objects, null.
F(h) == [t |-> "float", v |-> h]
L(q) == [t |-> "list", v |-> q]
D(f) == [t |-> "dict", v |-> f]
N    == [t |-> "null", v |-> 0]

Raised == [ok |-> FALSE, v |-> 0]
Ok(x)  == [ok |-> TRUE, v |-> x]

Digit ==
  [c \in {"0", "1", "2", "3", "4", "5", "6", "7", "8", "9"} |->
     CASE c = "0" -> 0 [] c = "1" -> 1 [] c = "2" -> 2 [] c = "3" -> 3
       [] c = "4" -> 4 [] c = "5" -> 5 [] c = "6" -> 6 [] c = "7" -> 7
       [] c = "8" -> 8 [] c = "9" -> 9]

RECURSIVE DigitsValue(_)
DigitsValue(q) ==
  IF q = << >> THEN 0 ELSE 10 * DigitsValue(SubSeq(q, 1, Len(q) - 1)) + Digit[q[Len(q)]]

\* int("...") of a string of characters: decimal digits only, else ValueError.
ParseInt(q) ==
  IF q # << >> /\ \A i \in 1..Len(q) : q[i] \in DOMAIN Digit
    THEN Ok(DigitsValue(q)) ELSE Raised

\* Python int(x).
PyInt(x) ==
  CASE x.t = "int"   -> Ok(x.v)
    [] x.t = "float" -> Ok(IF x.v >= 0 THEN x.v \div 100 ELSE -((-x.v) \div 100))
    [] x.t = "str"   -> ParseInt(x.v)
    [] OTHER         -> Raised

\* Python float(x), in hundredths.
PyFloat(x) ==
  CASE x.t = "int"   -> Ok(100 * x.v)
    [] x.t = "float" -> Ok(x.v)
    [] x.t = "str"   -> (IF ParseInt(x.v).ok THEN Ok(100 * ParseInt(x.v).v) ELSE Raised)
    [] OTHER         -> Raised

\* body.get(key, default) on a JSON object.
Get(b, k, default) == IF k \in DOMAIN b.v THEN b.v[k] ELSE default

\* Defaults written in the handlers.
DefaultMs == 250
DefaultGapMs == 50
DefaultDutyArg == 50

\* What a route handler did: the shared playback state after it, the response
\* it wrote (status 0: none, an exception left the handler), the task it
\* installed, the number of scheduler calls it made and whether it raised.
Outcome(s, status, msg, args, tid, ops, raised) ==
  [s |-> s, status |-> status, msg |-> msg, args |-> args,
   tid |-> tid, ops |-> ops, raised |-> raised]

\* cancel_playback of device_api, as imported by http.py: the scheduler's
\* cancel().
cancel_playback(s) == cancel_current_playback(s)

\* Variant of handle_post_tone that cancels the current playback before it
\* validates the parameters.
handle_post_tone_CancelFirst(s, body) ==
  LET freq == IF body.t = "dict" THEN PyInt(Get(body, "freq", N)) ELSE Raised
      ms   == IF body.t = "dict" THEN PyInt(Get(body, "ms", I(DefaultMs))) ELSE Raised
      duty == IF body.t = "dict" THEN PyFloat(Get(body, "duty", F(DefaultDutyArg))) ELSE Raised
      s0   == cancel_current_playback(s)
  IN  IF ~(freq.ok /\ ms.ok /\ duty.ok)
        THEN Outcome(s0, 400, "Invalid tone parameters", << >>, 0, 1, FALSE)
        ELSE LET s1 == play_tone_for_ms(s0, I(freq.v), I(ms.v), duty.v)
             IN  Outcome(s1, 0, "", << >>, s1.cur, 2, TRUE)

\* Variant of handle_post_tone in which a missing freq defaults to 440.
handle_post_tone_FreqDefault(s, body) ==
  LET freq == IF body.t = "dict" THEN PyInt(Get(body, "freq", I(440))) ELSE Raised
      ms   == IF body.t = "dict" THEN PyInt(Get(body, "ms", I(DefaultMs))) ELSE Raised
      duty == IF body.t = "dict" THEN PyFloat(Get(body, "duty", F(DefaultDutyArg))) ELSE Raised
  IN  IF ~(freq.ok /\ ms.ok /\ duty.ok)
        THEN Outcome(s, 400, "Invalid tone parameters", << >>, 0, 0, FALSE)
        ELSE LET s1 == play_tone_for_ms(s, I(freq.v), I(ms.v), duty.v)
             IN  Outcome(s1, 0, "", << >>, s1.cur, 1, TRUE)

\* handle_post_tone(body, writer).  play_tone_for_ms returns None, which the
\* handler awaits: the await raises TypeError after the task is installed.
handle_post_tone(s, body) ==
  LET freq == IF body.t = "dict" THEN PyInt(Get(body, "freq", N)) ELSE Raised
      ms   == IF body.t = "dict" THEN PyInt(Get(body, "ms", I(DefaultMs))) ELSE Raised
      duty == IF body.t = "dict" THEN PyFloat(Get(body, "duty", F(DefaultDutyArg))) ELSE Raised
  IN  IF ~(freq.ok /\ ms.ok /\ duty.ok)
        THEN Outcome(s, 400, "Invalid tone parameters", << >>, 0, 0, FALSE)
        ELSE LET s1 == play_tone_for_ms(s, I(freq.v), I(ms.v), duty.v)
             IN  Outcome(s1, 0, "", << >>, s1.cur, 1, TRUE)

\* The notes check of handle_post_melody.
NotesValid(notes) ==
  /\ notes.t = "list"
  /\ \A i \in 1..Len(notes.v) : notes.v[i].t = "list" /\ Len(notes.v[i].v) = 2

\* handle_post_melody(body, writer).  play_melody returns an int, which the
\* handler awaits: the await raises TypeError after the task is installed.
handle_post_melody(s, body) ==
  LET notes == IF body.t = "dict" THEN Get(body, "notes", L(<< >>)) ELSE N
      gap   == IF body.t = "dict" THEN PyInt(Get(body, "gap_ms", I(DefaultGapMs))) ELSE Raised
      duty  == IF body.t = "dict" THEN PyFloat(Get(body, "duty", F(DefaultDutyArg))) ELSE Raised
  IN  IF ~(gap.ok /\ duty.ok /\ NotesValid(notes))
        THEN Outcome(s, 400, "Invalid melody payload", << >>, 0, 0, FALSE)
        ELSE LET pairs == [i \in 1..Len(notes.v) |-> <<notes.v[i].v[1], notes.v[i].v[2]>>]
                 s1 == play_melody(s, pairs, I(gap.v), duty.v)
             IN  Outcome(s1, 0, "", << >>, s1.cur, 1, TRUE)

\* handle_post_cancel(writer).
handle_post_cancel(s) ==
  LET c == cancel_playback(s)
  IN  IF c.exc THEN Outcome(s, 500, "internal", << >>, 0, 1, FALSE)
      ELSE Outcome(c, 202, "canceled", << >>, 0, 1, FALSE)

\* adc.py.  A float is the fraction num/den.
RAW_MIN == 600
RAW_MAX == 65338

\* Values adc.read_u16() returns.
RawSamples == {0, 600, 601, 33000, 65338, 65535}

normalize_raw(raw, min_in, max_in) ==
  LET r == IF raw < min_in THEN min_in ELSE IF raw > max_in THEN max_in ELSE raw
  IN  [num |-> r - min_in, den |-> max_in - min_in]

estimate_lux(norm) == [num |-> norm.num * 1000, den |-> norm.den]

\* normalize_raw declares min_in and max_in with annotations, not defaults:
\* it has three required parameters.
NormalizeRawParams == 3

\* sensor_payload() calls normalize_raw(raw) with one argument; a call with
\* the wrong number of arguments raises TypeError.
sensor_payload(raw) ==
  LET passed == <<raw>>
  IN  IF Len(passed) # NormalizeRawParams THEN Raised
      ELSE LET norm == normalize_raw(passed[1], passed[2], passed[3])
           IN  Ok(<<raw, norm, estimate_lux(norm)>>)

\* handle_get_sensor(writer); raw is the reading of the ADC.
handle_get_sensor(s, raw) ==
  LET data == sensor_payload(raw)
  IN  IF data.ok THEN Outcome(s, 200, "sensor", data.v, 0, 0, FALSE)
      ELSE Outcome(s, 0, "", << >>, 0, 0, TRUE)

\* ujson.loads(body_bytes) if body_bytes else {}.  Received bytes are either
\* empty, the encoding of a JSON value, or not JSON; len is their number.
\* Every body a client sends in full is BodyLen bytes long (JSON texts are
\* padded with trailing white space, which ujson.loads accepts).
BodyLen == 40
NoBytes == [wf |-> TRUE, json |-> N, len |-> 0]
Encoded(j) == [wf |-> TRUE, json |-> j, len |-> BodyLen]
Garbage == [wf |-> FALSE, json |-> N, len |-> BodyLen]

\* The stream ended before the announced number of bytes arrived: the bytes
\* received are a proper prefix of the body.  A prefix that ends inside the
\* JSON text is not JSON; one that ends inside the trailing white space is
\* the same JSON value.
CutInside == [wf |-> FALSE, json |-> N, len |-> 20]
CutInPadding(j) == [wf |-> TRUE, json |-> j, len |-> 39]

ParseBody(bytes) ==
  IF bytes.len = 0 THEN Ok(D(<< >>))
  ELSE IF bytes.wf THEN Ok(bytes.json) ELSE Raised

\* Variant of PostRoute that looks at the path before decoding the body.
PostRoute_PathFirst(s, path, bytes) ==
  LET body == ParseBody(bytes)
      r == CASE path = "/tone"   -> handle_post_tone(s, body.v)
             [] path = "/melody" -> handle_post_melody(s, body.v)
             [] path = "/cancel" -> handle_post_cancel(s)
             [] OTHER            -> Outcome(s, 404, "Not Found", << >>, 0, 0, FALSE)
  IN  IF path \notin {"/tone", "/melody", "/cancel"} THEN r
      ELSE IF ~body.ok THEN Outcome(s, 400, "Invalid JSON", << >>, 0, 0, FALSE)
      ELSE IF r.raised THEN [r EXCEPT !.status = 500, !.msg = "internal"]
      ELSE r

\* Variant of PostRoute without the except clause of handle_client.
PostRoute_NoExcept(s, path, bytes) ==
  LET body == ParseBody(bytes)
  IN  IF ~body.ok THEN Outcome(s, 400, "Invalid JSON", << >>, 0, 0, FALSE)
      ELSE CASE path = "/tone"   -> handle_post_tone(s, body.v)
             [] path = "/melody" -> handle_post_melody(s, body.v)
             [] path = "/cancel" -> handle_post_cancel(s)
             [] OTHER            -> Outcome(s, 404, "Not Found", << >>, 0, 0, FALSE)

\* The POST part of handle_client from the JSON decoding on, and the except
\* clause around it: an exception leaving a handler is answered 500.
PostRoute(s, path, bytes) ==
  LET body == ParseBody(bytes)
      r == CASE path = "/tone"   -> handle_post_tone(s, body.v)
             [] path = "/melody" -> handle_post_melody(s, body.v)
             [] path = "/cancel" -> handle_post_cancel(s)
             [] OTHER            -> Outcome(s, 404, "Not Found", << >>, 0, 0, FALSE)
  IN  IF ~body.ok THEN Outcome(s, 400, "Invalid JSON", << >>, 0, 0, FALSE)
      ELSE IF r.raised THEN [r EXCEPT !.status = 500, !.msg = "internal"]
      ELSE r

\* int() of a non-numeric content-length raises ValueError inside the outer
\* try of handle_client; its except clause answers 500.
BadContentLength(s) == Outcome(s, 500, "internal", << >>, 0, 0, TRUE)

\* Variant of GetRoute that serves the sensor payload on every path.
GetRoute_AnyPath(s, path, raw) ==
  LET r == handle_get_sensor(s, raw)
  IN  IF r.raised THEN [r EXCEPT !.status = 500, !.msg = "internal"] ELSE r

\* The GET part of handle_client.
GetRoute(s, path, raw) ==
  IF path \in {"/sensor", "/health"}
    THEN LET r == handle_get_sensor(s, raw)
         IN  IF r.raised THEN [r EXCEPT !.status = 500, !.msg = "internal"] ELSE r
    ELSE Outcome(s, 404, "Not Found", << >>, 0, 0, FALSE)

\* Request lines, after strip().split(); eof is an empty read.
RequestLines ==
  { [eof |-> TRUE,  parts |-> << >>],
    [eof |-> FALSE, parts |-> <<"GET">>],
    [eof |-> FALSE, parts |-> <<"GET", "/sensor", "HTTP/1.1">>],
    [eof |-> FALSE, parts |-> <<"GET", "/nope", "HTTP/1.1">>],
    [eof |-> FALSE, parts |-> <<"GET", "/tone", "HTTP/1.1">>],
    [eof |-> FALSE, parts |-> <<"PUT", "/sensor", "HTTP/1.1">>],
    [eof |-> FALSE, parts |-> <<"PUT", "/nope", "HTTP/1.1">>],
    [eof |-> FALSE, parts |-> <<"POST", "/tone", "HTTP/1.1">>],
    [eof |-> FALSE, parts |-> <<"POST", "/melody", "HTTP/1.1">>],
    [eof |-> FALSE, parts |-> <<"POST", "/cancel", "HTTP/1.1">>],
    [eof |-> FALSE, parts |-> <<"POST", "/nope", "HTTP/1.1">>] }

\* Values of the content-length header: absent, or a string.
NoHeader == S(<< >>)
ContentLengths == { NoHeader, S(<<"4", "0">>), S(<<"x">>) }

\* int(headers.get("content-length", "0") or "0")
ContentLength(h) == IF h.v = << >> THEN Ok(0) ELSE PyInt(h)

\* Bodies a client sends.
Key1(k, x) == D([i \in {k} |-> x])
ToneBody(f, m, d) ==
  D([k \in {"freq", "ms", "duty"} |->
       CASE k = "freq" -> f [] k = "ms" -> m [] OTHER -> d])
MelodyBody(n, g) ==
  D([k \in {"notes", "gap_ms"} |-> IF k = "notes" THEN n ELSE g])

BodyBytes ==
  { NoBytes, Garbage,
    Encoded(ToneBody(I(440), I(200), F(50))),
    Encoded(Key1("freq", S(<<"5", "5", "0">>))),
    Encoded(Key1("freq", S(<<"a", "b", "c">>))),
    Encoded(Key1("ms", I(200))),
    Encoded(ToneBody(I(440), S(<<"a", "b", "c">>), F(50))),
    Encoded(Key1("notes", L(<< L(<<S(<<"a">>), I(100)>>) >>))),
    Encoded(MelodyBody(L(<< L(<<I(440), I(100)>>), L(<<I(550), I(100)>>) >>), I(20))),
    Encoded(Key1("notes", S(<<"x">>))),
    Encoded(Key1("notes", L(<< L(<<I(440)>>) >>))),
    Encoded(ToneBody(I(440), I(200), F(200))),
    CutInside,
    CutInPadding(ToneBody(I(440), I(200), F(50))) }

\* The local state of one handle_client coroutine.
NoConn ==
  [pc |-> "idle", method |-> "", path |-> "", bytes |-> NoBytes,
   status |-> 0, msg |-> "", args |-> << >>, tid |-> 0, ops |-> 0,
   clen |-> NoHeader, fault |-> "none", writes |-> 0, at |-> "try"]

\* ------------------------------------------------------------------ actions
Init ==
  /\ pwm \in {[freq |-> 0, duty |-> 0, checked |-> b] : b \in BOOLEAN}
  /\ task = << >>
  /\ runq = << >>
  /\ current_task = 0
  /\ last = [op |-> "init", t |-> 0, prev |-> 0]
  /\ api = "none"
  /\ conn = [c \in Conns |-> NoConn]

\* The event loop runs the task at the head of the run queue.
RunTask ==
  /\ runq # << >>
  /\ LET t == Head(runq)
         r == Resume(task[t], pwm)
     IN  /\ task' = [task EXCEPT ![t] = r.task]
         /\ pwm' = r.pwm
         /\ runq' = Tail(runq)
         /\ last' = [op |-> "run", t |-> t, prev |-> 0]
  /\ UNCHANGED <<current_task, conn, api>>

\* The sleep_ms timer of a sleeping task expires.
TimerExpire ==
  \E t \in TaskIds :
    /\ task[t].pc \in {"hold", "gap"}
    /\ ~InQueue(runq, t)
    /\ runq' = Append(runq, t)
    /\ last' = [op |-> "timer", t |-> t, prev |-> 0]
    /\ UNCHANGED <<pwm, task, current_task, conn, api>>

\* A coroutine calls play_tone_for_ms(freq, ms, duty).
CallPlayTone ==
  /\ Len(task) < MaxTasks
  /\ \E a \in ToneArgs :
       /\ Install(play_tone_for_ms(Shared, a.freq, a.ms, a.duty))
       /\ last' = [op |-> "play", t |-> Len(task) + 1, prev |-> current_task]
       /\ api' = "play"
       /\ UNCHANGED conn

\* A coroutine calls play_melody(notes, gap_ms, duty).
CallPlayMelody ==
  /\ Len(task) < MaxTasks
  /\ \E a \in MelodyArgs :
       /\ Install(play_melody(Shared, a.notes, a.gap, a.duty))
       /\ last' = [op |-> "play", t |-> Len(task) + 1, prev |-> current_task]
       /\ api' = "play"
       /\ UNCHANGED conn

\* A coroutine calls cancel_current_playback().
CallCancel ==
  /\ Install(cancel_current_playback(Shared))
  /\ last' = [op |-> "cancel", t |-> 0, prev |-> current_task]
  /\ api' = "cancel"
  /\ UNCHANGED conn

Next ==
  \/ RunTask
  \/ TimerExpire
  \/ CallPlayTone
  \/ CallPlayMelody
  \/ CallCancel

Spec == Init /\ [][Next]_vars

\* Fair scheduling: the event loop runs the task at the head of the run
\* queue, and every sleep_ms timer expires.  The callers of the API are not
\* obliged to call.  Termination is checked with at most MaxFairTasks tasks.
FairNext ==
  \/ RunTask
  \/ TimerExpire
  \/ Len(task) < MaxFairTasks /\ CallPlayTone
  \/ Len(task) < MaxFairTasks /\ CallPlayMelody
  \/ CallCancel

FairSpec == Init /\ [][FairNext]_vars /\ WF_vars(RunTask) /\ WF_vars(TimerExpire)

\* ---------------------------------------------------- handle_client actions
\* Where in handle_client the response of outcome r was written: in the try
\* body, in the try or the except clause of handle_post_cancel, or in the
\* outer except clause.
WrittenAt(path, r) ==
  IF r.raised THEN "except"
  ELSE IF path = "/cancel" /\ r.ops > 0
    THEN (IF r.status = 202 THEN "cancel_try" ELSE "cancel_except")
  ELSE "try"

\* Write-back of a route's outcome: the response is written (send_json up to
\* its await writer.drain()) in the same synchronous stretch.  A raised
\* exception that no except clause turned into a response leaves
\* handle_client once its finally clause has run.
Answer(c, r, b, h) ==
  /\ r.tid # 0 => Len(task) < MaxTasks
  /\ Install(r.s)
  /\ conn' = [conn EXCEPT ![c].pc = "drain", ![c].status = r.status,
                          ![c].bytes = b, ![c].clen = h,
                          ![c].fault = IF ~r.raised THEN "none"
                                       ELSE IF r.status = 500 THEN "caught"
                                       ELSE "escaped",
                          ![c].writes = IF r.status # 0 THEN 1 ELSE 0,
                          ![c].at = WrittenAt(conn[c].path, r),
                          ![c].msg = r.msg, ![c].args = r.args,
                          ![c].tid = r.tid, ![c].ops = r.ops]
  /\ last' = IF r.tid # 0 THEN [op |-> "play", t |-> r.tid, prev |-> current_task]
             ELSE IF r.ops > 0 THEN [op |-> "cancel", t |-> 0, prev |-> current_task]
             ELSE [op |-> "http", t |-> 0, prev |-> 0]
  /\ api' = IF r.tid # 0 THEN "play" ELSE IF r.ops > 0 THEN "cancel" ELSE api

\* start_server accepts a connection and starts handle_client for it.
Accept(c) ==
  /\ conn[c].pc = "idle"
  /\ conn' = [conn EXCEPT ![c].pc = "reqline"]
  /\ last' = [op |-> "http", t |-> 0, prev |-> 0]
  /\ UNCHANGED <<pwm, task, runq, current_task, api>>

\* req_line = await reader.readline() and the code up to the next await.
ReadRequestLine(c) ==
  /\ conn[c].pc = "reqline"
  /\ \E line \in RequestLines :
       IF line.eof
         THEN /\ conn' = [conn EXCEPT ![c].pc = "aclose_early"]
              /\ last' = [op |-> "http", t |-> 0, prev |-> 0]
              /\ UNCHANGED <<pwm, task, runq, current_task, api>>
       ELSE IF Len(line.parts) < 2
         THEN Answer(c, Outcome(Shared, 400, "Bad Request", << >>, 0, 0, FALSE), NoBytes, NoHeader)
       ELSE /\ conn' = [conn EXCEPT ![c].pc = "headers",
                                    ![c].method = line.parts[1],
                                    ![c].path = line.parts[2]]
            /\ last' = [op |-> "http", t |-> 0, prev |-> 0]
            /\ UNCHANGED <<pwm, task, runq, current_task, api>>

\* The header loop, then the routing up to the next await.
ReadHeaders(c) ==
  /\ conn[c].pc = "headers"
  /\ \E h \in ContentLengths :
       LET clen == ContentLength(h)
       IN  IF conn[c].method = "GET"
             THEN \E raw \in RawSamples :
                    Answer(c, GetRoute(Shared, conn[c].path, raw), NoBytes, h)
           ELSE IF conn[c].method # "POST"
             THEN Answer(c, Outcome(Shared, 405, "Method Not Allowed", << >>, 0, 0, FALSE), NoBytes, h)
           ELSE IF ~clen.ok
             THEN Answer(c, BadContentLength(Shared), NoBytes, h)
           ELSE IF clen.v > 0
             THEN /\ conn' = [conn EXCEPT ![c].pc = "body", ![c].clen = h]
                  /\ last' = [op |-> "http", t |-> 0, prev |-> 0]
                  /\ UNCHANGED <<pwm, task, runq, current_task, api>>
           ELSE Answer(c, PostRoute(Shared, conn[c].path, NoBytes), NoBytes, h)

\* The body read loop, JSON decoding and the route handler.
ReadBody(c) ==
  /\ conn[c].pc = "body"
  /\ \E b \in BodyBytes :
       /\ b.len <= ContentLength(conn[c].clen).v
       /\ Answer(c, PostRoute(Shared, conn[c].path, b), b, conn[c].clen)

\* await writer.drain() in send_json returns; the handler returns and its
\* finally clause starts await writer.aclose().
Drain(c) ==
  /\ conn[c].pc \in {"drain", "drain_err"}
  /\ conn' = [conn EXCEPT ![c].pc = "aclose", ![c].bytes = NoBytes,
                          ![c].clen = NoHeader]
  /\ last' = [op |-> "http", t |-> 0, prev |-> 0]
  /\ UNCHANGED <<pwm, task, runq, current_task, api>>

\* await writer.drain() in send_json raises (the peer reset the connection)
\* after writer.write() took the response.  The exception reaches the
\* enclosing except clause, which calls send_json(500, ...) and so writes
\* another response (always 500 "internal"); the except clause of
\* handle_client swallows a failure of its own send.  status and msg keep the
\* first response of the connection; writes counts the responses written.
SendFails(c) ==
  /\ conn[c].pc \in {"drain", "drain_err"}
  /\ conn' = IF conn[c].at = "except"
               THEN [conn EXCEPT ![c].pc = "aclose", ![c].bytes = NoBytes,
                                 ![c].clen = NoHeader]
               ELSE [conn EXCEPT ![c].pc = "drain_err", ![c].bytes = NoBytes,
                                 ![c].clen = NoHeader,
                                 ![c].writes = @ + 1,
                                 ![c].at = IF conn[c].at = "cancel_try"
                                             THEN "cancel_except" ELSE "except"]
  /\ last' = [op |-> "http", t |-> 0, prev |-> 0]
  /\ UNCHANGED <<pwm, task, runq, current_task, api>>

\* After an empty request line: await writer.aclose(), return, and the
\* finally clause starts await writer.aclose() again.
CloseEarly(c) ==
  /\ conn[c].pc = "aclose_early"
  /\ conn' = [conn EXCEPT ![c].pc = "aclose"]
  /\ last' = [op |-> "http", t |-> 0, prev |-> 0]
  /\ UNCHANGED <<pwm, task, runq, current_task, api>>

\* await writer.aclose() of the finally clause returns: the handler ends.
Close(c) ==
  /\ conn[c].pc = "aclose"
  /\ conn' = [conn EXCEPT ![c].pc = "closed"]
  /\ last' = [op |-> "http", t |-> 0, prev |-> 0]
  /\ UNCHANGED <<pwm, task, runq, current_task, api>>

Handler(c) ==
  \/ Accept(c)
  \/ ReadRequestLine(c)
  \/ ReadHeaders(c)
  \/ ReadBody(c)
  \/ Drain(c)
  \/ SendFails(c)
  \/ CloseEarly(c)
  \/ Close(c)

HttpNext ==
  \/ RunTask
  \/ TimerExpire
  \/ \E c \in Conns : Handler(c)

HttpSpec == Init /\ [][HttpNext]_vars

\* The event loop runs every ready coroutine: the steps of handle_client that
\* wait only for the device's own write and close are taken, and so are the
\* steps of the playback tasks.  The reads wait for the client, which need
\* not send anything: no read of handle_client has a timeout.
HttpFairSpec ==
  /\ HttpSpec
  /\ \A c \in Conns : WF_vars(Drain(c)) /\ WF_vars(CloseEarly(c)) /\ WF_vars(Close(c))
  /\ WF_vars(RunTask) /\ WF_vars(TimerExpire)

\* ================================================================== claims
\* A task that can still play: neither finished nor asked to cancel.
Live(tk) == ~Done(tk) /\ ~tk.cancelReq

IsStart(e) == e.op = "start_tone"

\* The task has run: its coroutine entered the try block and made its first
\* start_tone call.
Started(tk) == SelectSeq(tk.trace, IsStart) # << >>

\* ---- C1 ----
\* C1 as stated: in every reachable state at most one playback task is
\* non-terminal (created and not yet Completed or Canceled), and right after
\* a call that created a task the previous task of the slot is terminal.
C1_AtMostOneNonTerminal ==
  /\ Cardinality({t \in TaskIds : ~Done(task[t])}) <= 1
  /\ (last.op = "play" /\ last.prev # 0) => Done(task[last.prev])

\* C1 amended: at most one playback task is non-terminal and not asked to
\* cancel, and it is the one in the slot; a call that creates a new task has
\* first requested cancellation of the previous unfinished task and silenced
\* the buzzer; the previous tasks are all terminal by the time the new task
\* has taken its first step.
C1_AtMostOneLive ==
  /\ \A t \in TaskIds : Live(task[t]) => t = current_task
  /\ (last.op = "play" /\ last.prev # 0) =>
        /\ ~Live(task[last.prev])
        /\ pwm.duty = 0
        /\ current_task = last.t
  /\ \A t \in TaskIds : task[t].pc # "new" =>
        \A u \in 1..(t - 1) : Done(task[u])

\* A play call has just preempted a task that was still running.
C1_Witness ==
  /\ last.op = "play" /\ last.prev # 0
  /\ ~Done(task[last.prev]) /\ Started(task[last.prev])
  /\ task[last.prev].cancelReq

\* ---- C2 ----
\* C2: when a play call preempts a running task the buzzer is silent right
\* after the call, and from then on the preempted task makes no further
\* start_tone call: its remaining notes are never emitted.
C2_PreemptedNeverSounds ==
  /\ [](( /\ last.op = "play" /\ last.prev # 0
          /\ task[last.prev].cancelReq ) => pwm.duty = 0)
  /\ [][ \A t \in TaskIds : task[t].cancelReq =>
            SelectSeq(task'[t].trace, IsStart) = SelectSeq(task[t].trace, IsStart) ]_vars

\* A melody preempted during its first note, with a second note never
\* played, has been run to its end by the event loop.
C2_Witness ==
  \E t \in TaskIds :
    /\ task[t].kind = "melody" /\ Len(task[t].notes) = 2
    /\ task[t].pc = "Canceled" /\ task[t].idx = 1
    /\ Len(task) > t

\* ---- C3 ----
\* C3: while a tone task with freq > 0 that has not been asked to cancel is
\* in its hold, the PWM carries that task's frequency and duty.
C3_ToneHeld ==
  \A t \in TaskIds :
    LET tk == task[t]
    IN  ( /\ tk.kind = "tone" /\ tk.pc = "hold" /\ ~tk.cancelReq
          /\ tk.notes[1][1].t = "int" /\ tk.notes[1][1].v > 0 )
        => (pwm.freq = tk.notes[1][1].v /\ pwm.duty = DutyVal(tk.duty))

\* A tone is held while a task it preempted has already run its cleanup.
C3_Witness ==
  \E t \in TaskIds :
    /\ task[t].kind = "tone" /\ task[t].pc = "hold" /\ ~task[t].cancelReq
    /\ task[t].notes[1][1].v > 0 /\ pwm.duty > 0
    /\ \E u \in 1..(t - 1) : task[u].pc = "Canceled" /\ task[u].stops = 2

\* ---- C4 ----
\* C4: from the return of cancel_current_playback until the next play call
\* the buzzer is silent.
C4_SilentAfterCancel == api = "cancel" => pwm.duty = 0

\* A melody cancelled during a note has been run to its end with no play
\* call since the cancel.
C4_Witness ==
  /\ api = "cancel"
  /\ \E t \in TaskIds :
       /\ task[t].kind = "melody" /\ task[t].pc = "Canceled"
       /\ task[t].idx = 1 /\ task[t].stops = 2

\* ---- C5 ----
\* C5 as stated: every task that has left Running has had its silence step
\* executed exactly once.
C5_ExactlyOnce == \A t \in TaskIds : Done(task[t]) => task[t].stops = 1

\* C5 amended: the silence step is executed exactly once for a task that
\* ends by itself (by the finally block), and for a cancelled task once by
\* cancel_current_playback plus once more by the finally block if the task
\* had started: never zero times, never more than twice.
C5_OnceOrTwice ==
  \A t \in TaskIds :
    LET tk == task[t]
    IN  /\ tk.pc \in {"Completed", "Failed"} => tk.stops = 1
        /\ tk.pc = "Canceled" => tk.stops = (IF Started(tk) THEN 2 ELSE 1)
        /\ (~Done(tk) /\ tk.cancelReq) => tk.stops = 1
        /\ Live(tk) => tk.stops = 0

\* All three ways of leaving Running have happened.
C5_Witness ==
  /\ \E t \in TaskIds : task[t].pc = "Completed"
  /\ \E t \in TaskIds : task[t].pc = "Canceled" /\ Started(task[t])
  /\ \E t \in TaskIds : task[t].pc = "Canceled" /\ ~Started(task[t])

\* ---- C8 ----
\* The calls an uninterrupted melody makes, from the notes and the gap.
RECURSIVE MelodyEvents(_, _)
MelodyEvents(notes, gap) ==
  IF notes = << >> THEN <<Ev("stop_tone", I(0))>>
  ELSE << Ev("start_tone", Head(notes)[1]), Ev("sleep_ms", Head(notes)[2]),
          Ev("stop_tone", I(0)), Ev("sleep_ms", gap) >>
       \o MelodyEvents(Tail(notes), gap)

WellTyped(notes) ==
  \A i \in 1..Len(notes) : notes[i][1].t = "int" /\ notes[i][2].t = "int"

IsPrefix(a, b) == Len(a) <= Len(b) /\ SubSeq(b, 1, Len(a)) = a

\* C8: a melody that is not cancelled makes exactly the calls start_tone(n1
\* freq), sleep(n1 ms), stop_tone, sleep(gap), start_tone(n2 freq), ... in
\* the order of its notes; during a note the PWM carries the note, during
\* every gap the buzzer is silent, and it is silent when the task completes.
C8_MelodySequence ==
  \A t \in TaskIds :
    LET tk == task[t]
        ex == MelodyEvents(tk.notes, tk.gap)
    IN  (tk.kind = "melody" /\ ~tk.cancelReq /\ WellTyped(tk.notes)) =>
          /\ IsPrefix(tk.trace, ex)
          /\ tk.pc = "Completed" => tk.trace = ex
          /\ tk.pc = "hold" =>
               /\ Len(tk.trace) = 4 * tk.idx - 2
               /\ IF tk.notes[tk.idx][1].v > 0
                    THEN pwm.freq = tk.notes[tk.idx][1].v /\ pwm.duty = DutyVal(tk.duty)
                    ELSE pwm.duty = 0
          /\ tk.pc = "gap" => (Len(tk.trace) = 4 * tk.idx /\ pwm.duty = 0)
          /\ (tk.pc = "Completed" /\ last.op = "run" /\ last.t = t) => pwm.duty = 0

\* A two-note melody has played to its end.
C8_Witness ==
  \E t \in TaskIds :
    /\ task[t].kind = "melody" /\ Len(task[t].notes) = 2
    /\ task[t].pc = "Completed" /\ ~task[t].cancelReq

\* ---- C6 ----
Finished(c) == conn[c].pc \in {"idle", "closed"}

\* The task created by the latest play call of a handler.
LastPlayed == Len(task)

\* C6: the cancel-previous and install-new steps of one request are never
\* interleaved with those of another: at every moment at most one playback
\* task can still play, and once every handler has finished after play
\* requests, the slot holds the task of the request whose play call ran last
\* and no other task can still play.
C6_SingleFlightAcrossConnections ==
  /\ Cardinality({t \in TaskIds : Live(task[t])}) <= 1
  /\ ( /\ \A c \in Conns : Finished(c)
       /\ \E c \in Conns : conn[c].tid # 0
       /\ api = "play" )
     => /\ current_task = LastPlayed
        /\ \E c \in Conns : conn[c].tid = LastPlayed
        /\ \A t \in TaskIds : Live(task[t]) => t = LastPlayed

\* Two connections have each installed a task, both handlers have finished
\* and the task of the later request is sounding.
C6_Witness ==
  /\ \A c \in Conns : conn[c].pc = "closed" /\ conn[c].tid # 0
  /\ Live(task[2]) /\ task[2].pc = "hold" /\ pwm.duty > 0
  /\ Started(task[1])

\* ---- C7 ----
NothingRunning == current_task = 0 \/ Done(task[current_task])

\* C7: cancel_current_playback with nothing running raises no error, leaves
\* the tasks, the run queue and the (silent) buzzer as they are, empties the
\* slot, and a second call changes nothing more; every POST /cancel that
\* reaches its handler is answered 202 "canceled".
C7_CancelIdleIsNoOp ==
  /\ NothingRunning =>
       LET c1 == cancel_current_playback(Shared)
           c2 == cancel_current_playback(c1)
       IN  /\ ~c1.exc
           /\ c1.pwm = pwm /\ pwm.duty = 0
           /\ c1.task = task /\ c1.runq = runq /\ c1.cur = 0
           /\ c2 = c1
  /\ \A c \in Conns :
       (conn[c].method = "POST" /\ conn[c].path = "/cancel" /\ conn[c].ops > 0)
         => (conn[c].status = 202 /\ conn[c].msg = "canceled")

\* Two POST /cancel requests in a row with nothing playing, both answered.
C7_Witness ==
  /\ \A c \in Conns : conn[c].path = "/cancel" /\ conn[c].status = 202
  /\ task = << >> /\ pwm.duty = 0 /\ current_task = 0

\* ---- C9 ----
\* The request body of connection c holds integer-coercible freq and ms
\* (ms may be absent) and a float-coercible or absent duty.
ToneRequestValid(c) ==
  LET b == ParseBody(conn[c].bytes)
  IN  /\ conn[c].method = "POST" /\ conn[c].path = "/tone"
      /\ conn[c].pc = "drain"
      /\ b.ok /\ b.v.t = "dict"
      /\ PyInt(Get(b.v, "freq", N)).ok
      /\ PyInt(Get(b.v, "ms", I(DefaultMs))).ok
      /\ PyFloat(Get(b.v, "duty", F(DefaultDutyArg))).ok

\* C9: a POST /tone with integer-coercible freq and ms is answered 202
\* "tone played" echoing freq, ms and duty, and a tone task with those
\* values is installed.
C9_ToneAccepted ==
  \A c \in Conns :
    ToneRequestValid(c) =>
      LET b == ParseBody(conn[c].bytes).v
          freq == PyInt(Get(b, "freq", N)).v
          ms   == PyInt(Get(b, "ms", I(DefaultMs))).v
          duty == PyFloat(Get(b, "duty", F(DefaultDutyArg))).v
      IN  /\ conn[c].status = 202
          /\ conn[c].msg = "tone played"
          /\ conn[c].args = <<freq, ms, duty>>
          /\ conn[c].tid # 0

\* ---- C10 ----
\* C10: a handler that answers 400 has made no scheduler or hardware call,
\* and the step in which it answers leaves the tasks, the run queue, the
\* slot and the buzzer unchanged.
C10_BadRequestTouchesNothing ==
  /\ [](\A c \in Conns : conn[c].status = 400 => (conn[c].ops = 0 /\ conn[c].tid = 0))
  /\ [][ \A c \in Conns :
           (conn[c].status = 0 /\ conn'[c].status = 400)
             => UNCHANGED <<pwm, task, runq, current_task, api>> ]_vars

\* A POST /tone with invalid parameters has been answered 400 while a tone
\* started by the other connection is sounding.
C10_Witness ==
  \E c \in Conns :
    /\ conn[c].status = 400 /\ conn[c].msg = "Invalid tone parameters"
    /\ current_task # 0 /\ Live(task[current_task])
    /\ task[current_task].pc = "hold" /\ pwm.duty > 0

\* ---- C11 ----
\* Connection c has just handled a POST to path whose content-length was
\* numeric and whose body decoded.
Routed(c, path) ==
  /\ conn[c].pc = "drain" /\ conn[c].method = "POST" /\ conn[c].path = path
  /\ ContentLength(conn[c].clen).ok /\ ParseBody(conn[c].bytes).ok

BodyOf(c) == ParseBody(conn[c].bytes).v

\* The body supplies key k with a value int() accepts.
SuppliesInt(b, k) == b.t = "dict" /\ k \in DOMAIN b.v /\ PyInt(b.v[k]).ok

RejectedTone(c) ==
  /\ conn[c].status = 400 /\ conn[c].msg = "Invalid tone parameters"
  /\ conn[c].tid = 0 /\ conn[c].ops = 0

SuppliesPairs(b) ==
  /\ b.t = "dict" /\ "notes" \in DOMAIN b.v
  /\ b.v["notes"].t = "list"
  /\ \A i \in 1..Len(b.v["notes"].v) :
       b.v["notes"].v[i].t = "list" /\ Len(b.v["notes"].v[i].v) = 2

\* C12: a POST /melody whose notes is absent, not a list or holds an element
\* that is not a 2-element pair is answered 400 "Invalid melody payload";
\* every request that starts a melody is answered 202 with length equal to
\* the number of notes handed to play_melody.
C12_MelodyNeedsPairs ==
  \A c \in Conns :
    Routed(c, "/melody") =>
      /\ ~SuppliesPairs(BodyOf(c)) =>
           (conn[c].status = 400 /\ conn[c].msg = "Invalid melody payload" /\ conn[c].tid = 0)
      /\ conn[c].tid # 0 =>
           /\ SuppliesPairs(BodyOf(c))
           /\ conn[c].status = 202 /\ conn[c].msg = "melody played"
           /\ conn[c].args[1] = Len(task[conn[c].tid].notes)

\* ---- C13 ----
\* C13: every note that reaches the scheduler through handle_post_melody has
\* an integer freq >= 0 and an integer duration, and no playback task fails.
C13_NotesWellTyped ==
  /\ \A c \in Conns :
       (conn[c].tid # 0 /\ conn[c].path = "/melody") =>
         \A i \in 1..Len(task[conn[c].tid].notes) :
           LET n == task[conn[c].tid].notes[i]
           IN  n[1].t = "int" /\ n[1].v >= 0 /\ n[2].t = "int"
  /\ \A t \in TaskIds : task[t].pc # "Failed"

\* ---- C14 ----
\* The body bytes connection c read do not decode as JSON.
UndecodableBody(cn) == cn.method = "POST" /\ ~ParseBody(cn.bytes).ok

\* C14: for every POST, whatever its path, a body that fails JSON decoding
\* is answered 400 "Invalid JSON", and the step that answers it dispatches
\* no route handler: it leaves the buzzer, the tasks and the slot untouched.
C14_InvalidJson ==
  /\ [](\A c \in Conns :
          (conn[c].pc = "drain" /\ UndecodableBody(conn[c])) =>
            /\ conn[c].status = 400 /\ conn[c].msg = "Invalid JSON"
            /\ conn[c].tid = 0 /\ conn[c].ops = 0)
  /\ [][\A c \in Conns :
          (conn[c].pc = "body" /\ UndecodableBody(conn'[c])) =>
            UNCHANGED <<pwm, task, runq, current_task, api>>]_vars

\* An undecodable body was answered 400 on /cancel while the task another
\* connection started was sounding.
C14_Witness ==
  \E c, d \in Conns :
    /\ conn[c].pc = "drain" /\ UndecodableBody(conn[c]) /\ conn[c].path = "/cancel"
    /\ conn[c].status = 400
    /\ conn[d].tid # 0 /\ current_task = conn[d].tid
    /\ Live(task[current_task]) /\ pwm.duty > 0

\* ---- C15 ----
Routes == {"/sensor", "/health", "/tone", "/melody", "/cancel"}

\* Connection c has answered a request that had a method and a path.
Answered(c) == conn[c].pc = "drain" /\ conn[c].method # ""

NotFound(c) ==
  conn[c].status = 404 /\ conn[c].msg = "Not Found" /\ conn[c].tid = 0 /\ conn[c].ops = 0

\* C15 as stated: every request whose path is not one of the five routes is
\* answered 404, and every request whose method is neither GET nor POST is
\* answered 405.
C15_StatusByMethodAndPath ==
  \A c \in Conns :
    Answered(c) =>
      /\ conn[c].path \notin Routes => conn[c].status = 404
      /\ conn[c].method \notin {"GET", "POST"} => conn[c].status = 405

\* C15 amended: the method is looked at first.  A request whose method is
\* neither GET nor POST is answered 405 whatever its path; a GET whose path
\* is not /sensor or /health is answered 404; a POST whose content-length is
\* numeric, whose body decodes and whose path is not /tone, /melody or
\* /cancel is answered 404.
C15_MethodThenPath ==
  \A c \in Conns :
    Answered(c) =>
      /\ conn[c].method \notin {"GET", "POST"} =>
           /\ conn[c].status = 405 /\ conn[c].msg = "Method Not Allowed"
           /\ conn[c].tid = 0 /\ conn[c].ops = 0
      /\ (conn[c].method = "GET" /\ conn[c].path \notin {"/sensor", "/health"}) =>
           NotFound(c)
      /\ (conn[c].method = "POST" /\ conn[c].path \notin {"/tone", "/melody", "/cancel"}
            /\ ContentLength(conn[c].clen).ok /\ ParseBody(conn[c].bytes).ok) =>
           NotFound(c)

\* An unsupported method on an unknown path was answered 405 and a GET on a
\* POST-only route 404.
C15_Witness ==
  \E c, d \in Conns :
    /\ Answered(c) /\ conn[c].method = "PUT" /\ conn[c].path = "/nope"
    /\ conn[c].status = 405
    /\ Answered(d) /\ conn[d].method = "GET" /\ conn[d].path = "/tone"
    /\ conn[d].status = 404

\* ---- C16 ----
\* C16: a fault raised while handle_client parses or handles a request is
\* caught inside handle_client and answered 500 "internal"; no exception
\* leaves handle_client.
C16_FaultsAnswered500 ==
  \A c \in Conns :
    /\ conn[c].fault # "escaped"
    /\ conn[c].fault = "caught" =>
         (conn[c].status = 500 /\ conn[c].msg = "internal")

\* A connection whose content-length was not a number has been answered 500
\* and closed, and a later connection is answered 500 for a fault inside a
\* route handler.
C16_Witness ==
  \E c, d \in Conns :
    /\ conn[c].pc = "closed" /\ conn[c].fault = "caught" /\ conn[c].tid = 0
    /\ conn[c].method = "POST" /\ conn[c].status = 500
    /\ conn[d].pc = "drain" /\ conn[d].fault = "caught" /\ conn[d].tid # 0
    /\ conn[d].status = 500

\* ---- C18 ----
\* C18: GET /sensor is answered 200 with raw, norm and lux, where norm is
\* raw clamped to [RAW_MIN, RAW_MAX] and scaled to [0, 1] (0 at or below
\* RAW_MIN, 1 at or above RAW_MAX) and lux is norm * 1000.
C18_SensorPayload ==
  \A c \in Conns :
    (conn[c].pc = "drain" /\ conn[c].method = "GET" /\ conn[c].path = "/sensor") =>
      /\ conn[c].status = 200
      /\ \E raw \in RawSamples :
           LET norm == conn[c].args[2]
               lux  == conn[c].args[3]
           IN  /\ conn[c].args[1] = raw
               /\ norm.den > 0 /\ 0 <= norm.num /\ norm.num <= norm.den
               /\ raw <= RAW_MIN => norm.num = 0
               /\ raw >= RAW_MAX => norm.num = norm.den
               /\ (RAW_MIN <= raw /\ raw <= RAW_MAX) =>
                    (norm.num = raw - RAW_MIN /\ norm.den = RAW_MAX - RAW_MIN)
               /\ lux.num = norm.num * 1000 /\ lux.den = norm.den

\* ---- C17 ----
\* C17: every accepted connection is eventually closed by handle_client,
\* whatever the client sends or fails to send.
C17_EventuallyClosed ==
  \A c \in Conns : (conn[c].pc # "idle") ~> (conn[c].pc = "closed")

\* ---- C19 ----
\* C19: in every reachable state in which no playback task is running (every
\* created task has completed, was cancelled or ended by an error) the
\* buzzer is silent.
C19_SilentWhenIdle ==
  (\A t \in TaskIds : Done(task[t])) => pwm.duty = 0

\* Nothing is running after one task completed, one was cancelled while it
\* sounded and one failed in sleep_ms after it had started its tone.
C19_Witness ==
  /\ \A t \in TaskIds : Done(task[t])
  /\ \E a, b, f \in TaskIds :
       /\ task[a].pc = "Completed"
       /\ task[b].pc = "Canceled" /\ Started(task[b])
       /\ task[f].pc = "Failed" /\ task[f].notes[1][1] = I(440)

ShortBody(c) ==
  /\ conn[c].pc = "drain" /\ conn[c].method = "POST"
  /\ ContentLength(conn[c].clen).ok
  /\ ContentLength(conn[c].clen).v > 0
  /\ conn[c].bytes.len < ContentLength(conn[c].clen).v

\* C21: a POST that announces content-length n > 0 and receives fewer than n
\* body bytes (any number from 0 to n-1) is answered 400 "Invalid JSON" and
\* is not dispatched to a route handler.
C21_ShortBodyIsParseError ==
  \A c \in Conns :
    ShortBody(c) =>
      /\ conn[c].status = 400 /\ conn[c].msg = "Invalid JSON"
      /\ conn[c].tid = 0 /\ conn[c].ops = 0

\* ---- C22 ----
\* C22: for every connection handle_client writes at most one HTTP response
\* to the writer, also on the paths where sending the response fails and
\* the fault handler runs.
C22_AtMostOneResponse ==
  \A c \in Conns : conn[c].writes <= 1

\* ---- C23 ----
\* C23: for every POST /tone or POST /melody request that is accepted, the
\* accepted duty fraction is within [0, 1], every duty value written to the
\* PWM lies in 0..65535, and the PWM carrier frequency is positive whenever
\* the buzzer sounds.
C23_DutyInRange ==
  /\ \A c \in Conns :
       (conn[c].tid # 0 /\ conn[c].path \in {"/tone", "/melody"}) =>
         (0 <= task[conn[c].tid].duty /\ task[conn[c].tid].duty <= 100)
  /\ pwm.duty \in 0..DutyMax
  /\ pwm.duty > 0 => pwm.freq > 0

====
